---- MODULE Spec2Model ----
(***************************************************************************)
(* Model of src/app.py: a Streamlit page that turns text into speech with  *)
(* edge-tts.  A Python str is a sequence of one-character strings, so that *)
(* escaping, stripping and number formatting are computed character by     *)
(* character, as the code computes them.                                   *)
(***************************************************************************)
EXTENDS Integers, Sequences, FiniteSets, TLC

VARIABLES
    text_input,   \* st.text_area value (line 139)
    gender,       \* st.radio value (line 142)
    options,      \* the list handed to st.selectbox (lines 143-148)
    voice,        \* st.selectbox value
    rate_pct,     \* slider value (line 150)
    volume_db,    \* slider value (line 154)
    rate_str,     \* line 152
    volume_str,   \* line 155
    escaped,      \* the results of escape_xml in this script run, none or one
    pc,           \* position of the script run
    output_path,  \* synthesize_to_file's local (lines 70-72)
    data,         \* synthesize_to_file's local (line 79)
    mp3_bytes,    \* the handler's local (line 168)
    exc,          \* the exception in flight, if any
    ui,           \* what the handler has rendered in this script run
    files,        \* the temp directory: path -> content
    calls,        \* edge_tts.Communicate calls of this script run
    resp,         \* what the environment answered in this script run
    requests,     \* history: convert presses so far
    first         \* history: inputs, answers and outcome of the first run

vars == <<text_input, gender, options, voice, rate_pct, volume_db, rate_str,
          volume_str, escaped, pc, output_path, data, mp3_bytes, exc, ui,
          files, calls, resp, requests, first>>

widgetVars == <<gender, options, voice, rate_pct, volume_db, rate_str, volume_str>>
runVars == <<pc, output_path, data, mp3_bytes, exc, ui, files, calls, resp,
             requests, first>>

None == "None"
\* output_path = None (line 65)
NoPath == <<>>

----------------------------------------------------------------------------
(* Bounds of the model *)

\* longest text typed into the text area
MaxTextLen == 2
\* longest text handed to escape_xml on its own
MaxEscLen == 3
\* script runs with a convert press in one behaviour
MaxRequests == 3

----------------------------------------------------------------------------
(* Strings *)

\* all strings over an alphabet up to a length
StringsUpTo(alphabet, n) == UNION {[1..k -> alphabet] : k \in 0..n}

\* str.isspace for one character
IsSpace(c) == c \in {" ", "\n", "\t"}

RECURSIVE lstrip(_)
lstrip(s) == IF s # <<>> /\ IsSpace(Head(s)) THEN lstrip(Tail(s)) ELSE s

RECURSIVE rstrip(_)
rstrip(s) ==
    IF s # <<>> /\ IsSpace(s[Len(s)]) THEN rstrip(SubSeq(s, 1, Len(s) - 1)) ELSE s

\* str.strip()
strip(s) == rstrip(lstrip(s))

RECURSIVE replace(_, _, _)
\* str.replace(old, new) for a one-character old: left to right, every occurrence
replace(s, old, new) ==
    IF s = <<>> THEN <<>>
    ELSE (IF Head(s) = old THEN new ELSE <<Head(s)>>) \o replace(Tail(s), old, new)

AMP == <<"&", "a", "m", "p", ";">>
LT == <<"&", "l", "t", ";">>
GT == <<"&", "g", "t", ";">>
QUOT == <<"&", "q", "u", "o", "t", ";">>
APOS == <<"&", "a", "p", "o", "s", ";">>

\* the ampersand replaced last instead of first
escape_xml_AmpLast(text) ==
    replace(replace(replace(replace(replace(text,
        "<", LT), ">", GT), "\"", QUOT), "'", APOS), "&", AMP)

escape_xml(text) ==
    replace(replace(replace(replace(replace(text,
        "&", AMP), "<", LT), ">", GT), "\"", QUOT), "'", APOS)

----------------------------------------------------------------------------
(* Number formatting *)

DigitChars == <<"0", "1", "2", "3", "4", "5", "6", "7", "8", "9">>

RECURSIVE Digits(_)
\* decimal digits of a natural number, most significant first
Digits(n) ==
    IF n < 10 THEN <<DigitChars[n + 1]>>
    ELSE Digits(n \div 10) \o <<DigitChars[(n % 10) + 1]>>

\* format(n, "+d"): the sign always written
FormatInt_Signed(n) == IF n < 0 THEN <<"-">> \o Digits(-n) ELSE <<"+">> \o Digits(n)

\* f"{n}" for an int
FormatInt(n) == IF n < 0 THEN <<"-">> \o Digits(-n) ELSE Digits(n)

----------------------------------------------------------------------------
(* Voice lists *)

MALE_VOICES == <<"en-US-GuyNeural", "en-US-AriaNeural", "en-GB-RyanNeural", "en-AU-WilliamNeural", "en-CA-LiamNeural">>

FEMALE_VOICES == <<"en-US-JennyNeural", "en-US-AmberNeural", "en-GB-LibbyNeural", "en-AU-SallyNeural", "en-CA-ClaraNeural">>

\* the characters of each voice identifier
Spelling ==
    "en-US-GuyNeural" :> <<"e", "n", "-", "U", "S", "-", "G", "u", "y", "N", "e", "u", "r", "a", "l">> @@
    "en-US-AriaNeural" :> <<"e", "n", "-", "U", "S", "-", "A", "r", "i", "a", "N", "e", "u", "r", "a", "l">> @@
    "en-GB-RyanNeural" :> <<"e", "n", "-", "G", "B", "-", "R", "y", "a", "n", "N", "e", "u", "r", "a", "l">> @@
    "en-AU-WilliamNeural" :> <<"e", "n", "-", "A", "U", "-", "W", "i", "l", "l", "i", "a", "m", "N", "e", "u", "r", "a", "l">> @@
    "en-CA-LiamNeural" :> <<"e", "n", "-", "C", "A", "-", "L", "i", "a", "m", "N", "e", "u", "r", "a", "l">> @@
    "en-US-JennyNeural" :> <<"e", "n", "-", "U", "S", "-", "J", "e", "n", "n", "y", "N", "e", "u", "r", "a", "l">> @@
    "en-US-AmberNeural" :> <<"e", "n", "-", "U", "S", "-", "A", "m", "b", "e", "r", "N", "e", "u", "r", "a", "l">> @@
    "en-GB-LibbyNeural" :> <<"e", "n", "-", "G", "B", "-", "L", "i", "b", "b", "y", "N", "e", "u", "r", "a", "l">> @@
    "en-AU-SallyNeural" :> <<"e", "n", "-", "A", "U", "-", "S", "a", "l", "l", "y", "N", "e", "u", "r", "a", "l">> @@
    "en-CA-ClaraNeural" :> <<"e", "n", "-", "C", "A", "-", "C", "l", "a", "r", "a", "N", "e", "u", "r", "a", "l">>

UpperCase == <<"A", "B", "C", "D", "E", "F", "G", "H", "I", "J", "K", "L", "M", "N", "O", "P", "Q", "R", "S", "T", "U", "V", "W", "X", "Y", "Z">>
LowerCase == <<"a", "b", "c", "d", "e", "f", "g", "h", "i", "j", "k", "l", "m", "n", "o", "p", "q", "r", "s", "t", "u", "v", "w", "x", "y", "z">>

\* ord(c) for the characters of the voice identifiers
ord(c) ==
    IF c = "-" THEN 45
    ELSE IF \E i \in 1..26 : UpperCase[i] = c
         THEN 64 + (CHOOSE i \in 1..26 : UpperCase[i] = c)
         ELSE 96 + (CHOOSE i \in 1..26 : LowerCase[i] = c)

RECURSIVE SeqLess(_, _)
\* Python's < on two strings: by code point, a proper prefix first
SeqLess(a, b) ==
    IF b = <<>> THEN FALSE
    ELSE IF a = <<>> THEN TRUE
    ELSE IF Head(a) # Head(b) THEN ord(Head(a)) < ord(Head(b))
    ELSE SeqLess(Tail(a), Tail(b))

StrLess(v, w) == SeqLess(Spelling[v], Spelling[w])

\* set(seq)
SetOf(seq) == {seq[i] : i \in 1..Len(seq)}

RECURSIVE sorted(_)
\* sorted(S) for a set of distinct strings: ascending
sorted(S) ==
    IF S = {} THEN <<>>
    ELSE LET m == CHOOSE x \in S : \A y \in S \ {x} : StrLess(x, y)
         IN <<m>> \o sorted(S \ {m})

\* the two lists concatenated, neither sorted nor deduplicated
ALL_VOICES_Concat == MALE_VOICES \o FEMALE_VOICES

ALL_VOICES == sorted(SetOf(MALE_VOICES \o FEMALE_VOICES))

----------------------------------------------------------------------------
(* Widgets: each interaction reruns the script, which recomputes lines 142-155 *)

Genders == {"Female", "Male", "Show all"}

\* the list st.selectbox is given for a gender
VoiceOptions(g) ==
    IF g = "Female" THEN FEMALE_VOICES
    ELSE IF g = "Male" THEN MALE_VOICES
    ELSE ALL_VOICES

RATE_MIN == -50
RATE_MAX == 50
RATE_STEP == 5
VOLUME_MIN == -10
VOLUME_MAX == 10
VOLUME_STEP == 1

\* the values a slider can take
SliderValues(lo, hi, step) == {lo + k * step : k \in 0..((hi - lo) \div step)}

RateValues == SliderValues(RATE_MIN, RATE_MAX, RATE_STEP)
VolumeValues == SliderValues(VOLUME_MIN, VOLUME_MAX, VOLUME_STEP)

\* f"{rate_pct:+d}%"
RateStr_Signed(r) == FormatInt_Signed(r) \o <<"%">>

\* f"{rate_pct}%"
RateStr(r) == FormatInt(r) \o <<"%">>

\* f"{volume_db}dB"
VolumeStr(v) == FormatInt(v) \o <<"d", "B">>

\* one run of lines 142-155 with the widgets at gender g, option i, rate r, volume v
Widgets(g, i, r, v) ==
    /\ gender' = g
    /\ options' = VoiceOptions(g)
    /\ voice' = VoiceOptions(g)[i]
    /\ rate_pct' = r
    /\ rate_str' = RateStr(r)
    /\ volume_db' = v
    /\ volume_str' = VolumeStr(v)

\* the index of the selected voice in the current list
VoiceIndex == CHOOSE i \in 1..Len(options) : options[i] = voice

----------------------------------------------------------------------------
(* The page before any interaction *)

\* the text area's default value (line 139); "u2014" stands for the one
\* character U+2014, the em dash
DefaultText ==
    <<"H", "e", "l", "l", "o", " ", "u2014", " ", "t", "h", "i", "s", " ", "i", "s", " ", "a", " ", "s", "a", "m", "p", "l", "e", " ", "o", "f", " ", "n", "a", "t", "u", "r", "a", "l", "-", "s", "o", "u", "n", "d", "i", "n", "g", " ", "E", "n", "g", "l", "i", "s", "h", " ", "s", "p", "e", "e", "c", "h", ".">>

InitWidgets ==
    /\ gender = "Female"
    /\ options = FEMALE_VOICES
    /\ voice = FEMALE_VOICES[1]
    /\ rate_pct = 0
    /\ rate_str = RateStr(0)
    /\ volume_db = 0
    /\ volume_str = VolumeStr(0)

\* nothing rendered by the handler
NoUi == [kind |-> "none", msg |-> None, audio |-> None, download |-> None, exc |-> None]

\* no answer from the environment yet
NoResp == [engine |-> None, audio |-> None, read |-> None, remove |-> None]

InitRun ==
    /\ pc = "idle"
    /\ requests = 0
    /\ output_path = NoPath
    /\ data = None
    /\ mp3_bytes = None
    /\ exc = None
    /\ ui = NoUi
    /\ files = <<>>
    /\ calls = <<>>
    /\ resp = NoResp
    /\ first = <<>>

----------------------------------------------------------------------------
(* Markup *)

SpeakOpen == <<"<", "s", "p", "e", "a", "k", ">", "<", "p", "r", "o", "s", "o", "d", "y", " ", "r", "a", "t", "e", "=", "\"">>
VolumeAttr == <<"\"", " ", "v", "o", "l", "u", "m", "e", "=", "\"">>
AttrClose == <<"\"", ">">>
SpeakClose == <<"<", "/", "p", "r", "o", "s", "o", "d", "y", ">", "<", "/", "s", "p", "e", "a", "k", ">">>

\* the f-string of line 57
Ssml(text, rate, volume) ==
    SpeakOpen \o rate \o VolumeAttr \o volume \o AttrClose \o escape_xml(text) \o SpeakClose

----------------------------------------------------------------------------
(* The environment *)

\* what the backend may stream into the output file
AudioSample == {"mp3-a", "mp3-b"}
\* the content of a temp file nothing was written to
EmptyFile == "empty"

\* the backend cannot be reached
ConnectivityErrors == {"ClientConnectorError"}
\* the backend answered with an error
SynthesisErrors == {"NoAudioReceived"}
EngineErrors == ConnectivityErrors \cup SynthesisErrors
\* open() or read() failed
ReadError == "OSError"
\* os.remove failed
RemoveError == "PermissionError"
\* the classes above all derive from Exception
ExceptionSubclasses == EngineErrors \cup {ReadError, RemoveError}

\* a name tempfile has not handed out and that does not exist
FreshPath ==
    LET n == CHOOSE p \in 1..(MaxRequests + 1) :
                 /\ <<"tmp", p>> \notin DOMAIN files
                 /\ \A q \in 1..(p - 1) : <<"tmp", q>> \in DOMAIN files
    IN <<"tmp", n>>

\* the file system with one file more, or one file rewritten
WriteFile(fs, p, content) ==
    [q \in DOMAIN fs \cup {p} |-> IF q = p THEN content ELSE fs[q]]

\* the file system with one file less
RemoveFile(fs, p) == [q \in DOMAIN fs \ {p} |-> fs[q]]

----------------------------------------------------------------------------
(* The convert handler, lines 160-184, and synthesize_to_file, lines 65-84 *)

\* `not text_input` without the strip
IsBlank_NoStrip(text) == text = <<>>

\* `not text_input.strip()` (line 163)
IsBlank(text) == strip(text) = <<>>

\* `except ConnectionError`: only unreachable-backend errors are caught
Catches_ConnectivityOnly(cls) == cls \in ConnectivityErrors

\* `except Exception` (line 183)
Catches(cls) == cls \in ExceptionSubclasses

\* what the first script run was given, what it was answered, what it showed
RunRecord ==
    [text |-> text_input, voice |-> voice, rate |-> rate_str, volume |-> volume_str,
     resp |-> resp, outcome |-> ui, pc |-> pc]

\* the end of a script run: the page waits for the next interaction
Finish(track) ==
    first' = IF track /\ first = <<>> THEN <<RunRecord'>> ELSE first

\* st.error of line 164
ValidationMessage == "Please enter some text to synthesize."
\* st.success of line 170, its em dash (U+2014) written as a hyphen
SuccessMessage == "Synthesis complete - play below"

\* the convert button is pressed: the script reruns with the widgets' values and
\* reaches line 162; blank text ends the run at line 164
Convert(track, texts, selections) ==
    /\ pc = "idle"
    /\ requests < MaxRequests
    /\ requests' = requests + 1
    /\ \E t \in texts, sel \in selections :
        /\ text_input' = t
        /\ Widgets(sel[1], sel[2], sel[3], sel[4])
    /\ escaped' = <<>>
    /\ output_path' = NoPath
    /\ data' = None
    /\ mp3_bytes' = None
    /\ exc' = None
    /\ calls' = <<>>
    /\ resp' = NoResp
    /\ files' = files
    /\ IF IsBlank(text_input')
       THEN /\ ui' = [NoUi EXCEPT !.kind = "error", !.msg = ValidationMessage]
            /\ pc' = "idle"
            /\ Finish(track)
       ELSE /\ ui' = NoUi
            /\ pc' = "call"
            /\ first' = first

\* lines 168, 70-73: synthesize_to_file is entered without output_path and makes
\* the temp file
EnterSynthesize ==
    /\ pc = "call"
    /\ output_path' = FreshPath
    /\ files' = WriteFile(files, FreshPath, EmptyFile)
    /\ pc' = "synth"
    /\ UNCHANGED <<text_input, widgetVars, escaped, data, mp3_bytes, exc, ui, calls,
                   resp, requests, first>>

\* the Communicate call of line 59
EngineCall(result) ==
    [payload |-> Ssml(text_input, rate_str, volume_str), voice |-> voice,
     path |-> output_path, result |-> result]

\* lines 76, 57-62: the markup is built, the backend streams the audio into the file
EngineOk ==
    /\ pc = "synth"
    /\ \E audio \in AudioSample :
        /\ files' = WriteFile(files, output_path, audio)
        /\ resp' = [resp EXCEPT !.engine = "ok", !.audio = audio]
    /\ escaped' = <<escape_xml(text_input)>>
    /\ calls' = Append(calls, EngineCall("ok"))
    /\ pc' = "read"
    /\ UNCHANGED <<text_input, widgetVars, output_path, data, mp3_bytes, exc, ui,
                   requests, first>>

\* the error of the backend caught and dropped inside synthesize_to_file
EngineRaise_Swallowed ==
    /\ pc = "synth"
    /\ \E cls \in EngineErrors : resp' = [resp EXCEPT !.engine = cls]
    /\ escaped' = <<escape_xml(text_input)>>
    /\ calls' = Append(calls, EngineCall("raised"))
    /\ pc' = "read"
    /\ UNCHANGED <<text_input, widgetVars, output_path, data, mp3_bytes, exc, ui,
                   files, requests, first>>

\* lines 76, 57-61: the markup is built, the backend call raises; nothing between
\* line 76 and the handler's except catches it
EngineRaise ==
    /\ pc = "synth"
    /\ \E cls \in EngineErrors :
        /\ resp' = [resp EXCEPT !.engine = cls]
        /\ exc' = cls
    /\ escaped' = <<escape_xml(text_input)>>
    /\ calls' = Append(calls, EngineCall("raised"))
    /\ pc' = "except"
    /\ UNCHANGED <<text_input, widgetVars, output_path, data, mp3_bytes, ui, files,
                   requests, first>>

\* lines 78-79: the file is read
ReadOk ==
    /\ pc = "read"
    /\ data' = files[output_path]
    /\ resp' = [resp EXCEPT !.read = "ok"]
    /\ pc' = "remove"
    /\ UNCHANGED <<text_input, widgetVars, escaped, output_path, mp3_bytes, exc, ui,
                   files, calls, requests, first>>

\* lines 78-79: open or read raises
ReadFail ==
    /\ pc = "read"
    /\ exc' = ReadError
    /\ resp' = [resp EXCEPT !.read = "fail"]
    /\ pc' = "except"
    /\ UNCHANGED <<text_input, widgetVars, escaped, output_path, data, mp3_bytes, ui,
                   files, calls, requests, first>>

\* lines 80-81: the file is removed
RemoveOk ==
    /\ pc = "remove"
    /\ files' = RemoveFile(files, output_path)
    /\ resp' = [resp EXCEPT !.remove = "ok"]
    /\ pc' = "return"
    /\ UNCHANGED <<text_input, widgetVars, escaped, output_path, data, mp3_bytes, exc,
                   ui, calls, requests, first>>

\* os.remove outside any try: its error leaves synthesize_to_file
RemoveFail_Propagates ==
    /\ pc = "remove"
    /\ exc' = RemoveError
    /\ resp' = [resp EXCEPT !.remove = "fail"]
    /\ pc' = "except"
    /\ UNCHANGED <<text_input, widgetVars, escaped, output_path, data, mp3_bytes, ui,
                   files, calls, requests, first>>

\* lines 80-83: os.remove raises, the except clause passes
RemoveFail ==
    /\ pc = "remove"
    /\ resp' = [resp EXCEPT !.remove = "fail"]
    /\ pc' = "return"
    /\ UNCHANGED <<text_input, widgetVars, escaped, output_path, data, mp3_bytes, exc,
                   ui, files, calls, requests, first>>

\* lines 84, 168: the bytes are returned and bound to mp3_bytes
Return ==
    /\ pc = "return"
    /\ mp3_bytes' = data
    /\ pc' = "render"
    /\ UNCHANGED <<text_input, widgetVars, escaped, output_path, data, exc, ui, files,
                   calls, resp, requests, first>>

\* lines 170-181: success message, audio player, download button
Render(track) ==
    /\ pc = "render"
    /\ ui' = [NoUi EXCEPT !.kind = "success", !.msg = SuccessMessage,
                          !.audio = mp3_bytes, !.download = mp3_bytes]
    /\ pc' = "idle"
    /\ UNCHANGED <<text_input, widgetVars, escaped, output_path, data, mp3_bytes, exc,
                   files, calls, resp, requests>>
    /\ Finish(track)

\* lines 183-184: the exception reaches the handler's except clause, which shows it
\* with st.exception; an exception the clause does not catch ends the script
Except(track) ==
    /\ pc = "except"
    /\ IF Catches(exc)
       THEN /\ ui' = [NoUi EXCEPT !.kind = "exception", !.exc = exc]
            /\ exc' = None
            /\ pc' = "idle"
       ELSE /\ pc' = "crashed"
            /\ UNCHANGED <<ui, exc>>
    /\ UNCHANGED <<text_input, widgetVars, escaped, output_path, data, mp3_bytes,
                   files, calls, resp, requests>>
    /\ Finish(track)

----------------------------------------------------------------------------
(* The page with its convert button *)

\* the characters typed into the text area
TextAlphabet == {" ", "\n", "a"}
Texts == StringsUpTo(TextAlphabet, MaxTextLen)

\* widget states at the moment of a press: gender, option, rate, volume
ConvertSelections ==
    {<<"Female", 1, 0, 0>>, <<"Male", 2, -50, 10>>, <<"Show all", 10, 5, -3>>}

Init ==
    /\ text_input = DefaultText
    /\ escaped = <<>>
    /\ InitWidgets
    /\ InitRun

Next ==
    \/ Convert(FALSE, Texts, ConvertSelections)
    \/ EnterSynthesize
    \/ EngineOk
    \/ EngineRaise
    \/ ReadOk
    \/ ReadFail
    \/ RemoveOk
    \/ RemoveFail
    \/ Return
    \/ Render(FALSE)
    \/ Except(FALSE)

Spec == Init /\ [][Next]_vars

----------------------------------------------------------------------------
(* A session whose first script run is remembered *)

SessionTexts == {<<>>, <<" ">>, <<"a">>, <<"a", "&">>}
SessionSelections == {<<"Female", 1, 0, 0>>, <<"Male", 2, -50, 10>>}

NextSession ==
    \/ Convert(TRUE, SessionTexts, SessionSelections)
    \/ EnterSynthesize
    \/ EngineOk
    \/ EngineRaise
    \/ ReadOk
    \/ ReadFail
    \/ RemoveOk
    \/ RemoveFail
    \/ Return
    \/ Render(TRUE)
    \/ Except(TRUE)

SpecSession == Init /\ [][NextSession]_vars

----------------------------------------------------------------------------
(* The widgets alone: every interaction reruns lines 142-155 *)

\* st.radio: another gender; the select box is a new widget at index 0
SetGender ==
    /\ \E g \in Genders \ {gender} : Widgets(g, 1, rate_pct, volume_db)
    /\ UNCHANGED <<text_input, escaped, runVars>>

\* st.selectbox: another entry of the list shown
SelectVoice ==
    /\ \E i \in 1..Len(options) : options[i] # voice /\ Widgets(gender, i, rate_pct, volume_db)
    /\ UNCHANGED <<text_input, escaped, runVars>>

\* the rate slider is moved
SetRate ==
    /\ \E r \in RateValues \ {rate_pct} : Widgets(gender, VoiceIndex, r, volume_db)
    /\ UNCHANGED <<text_input, escaped, runVars>>

\* the volume slider is moved
SetVolume ==
    /\ \E v \in VolumeValues \ {volume_db} : Widgets(gender, VoiceIndex, rate_pct, v)
    /\ UNCHANGED <<text_input, escaped, runVars>>

NextWidgets == SetGender \/ SelectVoice \/ SetRate \/ SetVolume

SpecWidgets == Init /\ [][NextWidgets]_vars

----------------------------------------------------------------------------
(* escape_xml on its own *)

XmlAlphabet == {"&", "<", ">", "\"", "'", "a", ";"}
XmlTexts == StringsUpTo(XmlAlphabet, MaxEscLen)

InitEscape ==
    /\ text_input \in XmlTexts
    /\ escaped = <<>>
    /\ InitWidgets
    /\ InitRun

\* line 57 evaluates escape_xml(text)
Escape ==
    /\ escaped = <<>>
    /\ escaped' = <<escape_xml(text_input)>>
    /\ UNCHANGED <<text_input, widgetVars, runVars>>

\* another text is typed
Retype ==
    /\ escaped # <<>>
    /\ text_input' \in XmlTexts
    /\ escaped' = <<>>
    /\ UNCHANGED <<widgetVars, runVars>>

NextEscape == Escape \/ Retype

SpecEscape == InitEscape /\ [][NextEscape]_vars

----------------------------------------------------------------------------
(* Properties *)

\* a convert press has happened and the text area holds only whitespace
BlankPressed ==
    /\ requests > 0
    /\ \A i \in 1..Len(text_input) : IsSpace(text_input[i])

\* C1: a press of convert with empty or whitespace-only text shows the validation
\* message and ends the run at once: no engine call, no temp file, no audio,
\* whatever the widgets select.
C1_BlankTextNeverSynthesized ==
    BlankPressed =>
        /\ pc = "idle"
        /\ ui.kind = "error"
        /\ ui.msg = ValidationMessage
        /\ calls = <<>>
        /\ output_path = NoPath
        /\ ui.audio = None
        /\ ui.download = None

C1_Witness ==
    /\ BlankPressed
    /\ text_input = <<" ", "\n">>
    /\ gender = "Male"
    /\ rate_pct = -50
    /\ ui.kind = "error"

\* C2: when the markup call has failed, the finished run has made exactly one more
\* call, with the plain text and the same voice, and shows the success of that call
\* if it succeeded and the error only if it failed too.
C2_OneFallbackCall ==
    (pc = "idle" /\ calls # <<>> /\ calls[1].result = "raised") =>
        /\ Len(calls) = 2
        /\ calls[2].payload = text_input
        /\ calls[2].voice = voice
        /\ calls[2].result = "ok" => ui.kind = "success"
        /\ calls[2].result = "raised" => ui.kind = "exception"

\* an engine call of this run raised
EngineRaised == \E i \in 1..Len(calls) : calls[i].result = "raised"
\* the success message, the player or the download button is on the page
AudioShown == ui.kind = "success" \/ ui.audio # None \/ ui.download # None

\* C3: the player and the download button are on the page only once the engine call
\* of the same run has completed without raising, and they carry the bytes of that
\* call; a run whose engine call raised shows none of them, and ends showing the
\* exception.
C3_AudioOnlyAfterEngineSuccess ==
    /\ AudioShown =>
        /\ calls # <<>>
        /\ calls[Len(calls)].result = "ok"
        /\ ~EngineRaised
        /\ ui.audio = resp.audio
        /\ ui.download = resp.audio
    /\ EngineRaised =>
        /\ ~AudioShown
        /\ pc = "idle" => (ui.kind = "exception" /\ ui.exc = resp.engine)

C3_Witness ==
    /\ pc = "idle"
    /\ requests >= 2
    /\ ui.kind = "success"
    /\ ui.audio = "mp3-b"
    /\ calls # <<>>

\* C4: a run that failed because the backend was unreachable and a run that failed
\* for another engine error are reported through different error kinds.
C4_ConnectivityKindDiffers ==
    (/\ pc = "idle"
     /\ first # <<>>
     /\ first[1].resp.engine \in ConnectivityErrors
     /\ resp.engine \in SynthesisErrors) =>
        ui.kind # first[1].outcome.kind

\* C5: once synthesize_to_file has read the temp file, it has attempted to delete
\* it before it returns, a failed delete raises nothing, and the bytes returned are
\* the bytes read.
C5_DeleteAttemptedAndSwallowed ==
    (resp.read = "ok" /\ pc # "remove") =>
        /\ resp.remove \in {"ok", "fail"}
        /\ pc \in {"return", "render", "idle"}
        /\ exc = None
        /\ data = resp.audio
        /\ pc # "return" => mp3_bytes = data
        /\ resp.remove = "ok" => output_path \notin DOMAIN files

C5_Witness ==
    /\ pc = "idle"
    /\ resp.read = "ok"
    /\ resp.remove = "fail"
    /\ output_path \in DOMAIN files
    /\ mp3_bytes = "mp3-a"
    /\ ui.kind = "success"

Entities == {AMP, LT, GT, QUOT, APOS}
\* the character an entity stands for
EntityChar(e) ==
    IF e = AMP THEN "&" ELSE IF e = LT THEN "<" ELSE IF e = GT THEN ">"
    ELSE IF e = QUOT THEN "\"" ELSE "'"
\* the entities that start at position i of s
EntitiesAt(s, i) ==
    {e \in Entities : i + Len(e) - 1 <= Len(s) /\ SubSeq(s, i, i + Len(e) - 1) = e}

RECURSIVE Unescape(_)
\* every entity read back once, left to right
Unescape(s) ==
    IF s = <<>> THEN <<>>
    ELSE IF EntitiesAt(s, 1) # {}
         THEN LET e == CHOOSE x \in EntitiesAt(s, 1) : TRUE
              IN <<EntityChar(e)>> \o Unescape(SubSeq(s, Len(e) + 1, Len(s)))
         ELSE <<Head(s)>> \o Unescape(Tail(s))

\* C6: escape_xml(text) holds no <, >, double or single quote; every & in it starts
\* one of the five entities; no entity is escaped again, so reading each entity
\* back once gives the text; a text with none of the five characters is unchanged.
C6_EscapeXml ==
    \A k \in 1..Len(escaped) :
        LET out == escaped[k]
        IN /\ \A i \in 1..Len(out) : out[i] \notin {"<", ">", "\"", "'"}
           /\ \A i \in 1..Len(out) : out[i] = "&" => EntitiesAt(out, i) # {}
           /\ Unescape(out) = text_input
           /\ (\A i \in 1..Len(text_input) :
                   text_input[i] \notin {"&", "<", ">", "\"", "'"}) => out = text_input

C6_Witness ==
    /\ text_input = <<"&", "<", "'">>
    /\ escaped = <<AMP \o LT \o APOS>>

\* C7: ALL_VOICES is the union of the two lists, in ascending order without a
\* repeat; "Show all" offers exactly the voices "Female" and "Male" offer.
C7_AllVoicesSortedUnion ==
    /\ SetOf(ALL_VOICES) = SetOf(MALE_VOICES) \cup SetOf(FEMALE_VOICES)
    /\ \A i \in 1..(Len(ALL_VOICES) - 1) : StrLess(ALL_VOICES[i], ALL_VOICES[i + 1])
    /\ \A i, j \in 1..Len(ALL_VOICES) : i # j => ALL_VOICES[i] # ALL_VOICES[j]
    /\ voice \in SetOf(options)
    /\ gender = "Show all" =>
           /\ options = ALL_VOICES
           /\ SetOf(options) = SetOf(MALE_VOICES) \cup SetOf(FEMALE_VOICES)
    /\ gender \in {"Female", "Male"} => SetOf(options) \subseteq SetOf(ALL_VOICES)

C7_Witness ==
    /\ gender = "Show all"
    /\ Len(options) = 10
    /\ voice = "en-US-AriaNeural"
    /\ options[1] = "en-AU-SallyNeural"

RECURSIVE DigitsValue(_)
\* the number a string of digits reads as
DigitsValue(ds) ==
    IF ds = <<>> THEN 0
    ELSE 10 * DigitsValue(SubSeq(ds, 1, Len(ds) - 1))
         + ((CHOOSE k \in 1..10 : DigitChars[k] = ds[Len(ds)]) - 1)

\* s is the decimal rendering of n: a minus sign for a negative n and no sign
\* otherwise, then digits without a leading zero
IsDecimalOf(s, n) ==
    LET ds == IF n < 0 THEN Tail(s) ELSE s
    IN /\ s # <<>>
       /\ n < 0 => s[1] = "-"
       /\ ds # <<>>
       /\ \A i \in 1..Len(ds) : \E k \in 1..10 : DigitChars[k] = ds[i]
       /\ Len(ds) > 1 => ds[1] # "0"
       /\ DigitsValue(ds) = (IF n < 0 THEN -n ELSE n)

\* C8: the rate is a multiple of 5 in [-50, 50], the volume an integer in
\* [-10, 10]; rate_str is the decimal rendering of the rate followed by %,
\* volume_str that of the volume followed by dB, with no plus sign.
C8_ProsodyStrings ==
    /\ rate_pct \in -50..50
    /\ rate_pct % 5 = 0
    /\ volume_db \in -10..10
    /\ Len(rate_str) >= 2
    /\ rate_str[Len(rate_str)] = "%"
    /\ IsDecimalOf(SubSeq(rate_str, 1, Len(rate_str) - 1), rate_pct)
    /\ Len(volume_str) >= 3
    /\ SubSeq(volume_str, Len(volume_str) - 1, Len(volume_str)) = <<"d", "B">>
    /\ IsDecimalOf(SubSeq(volume_str, 1, Len(volume_str) - 2), volume_db)

C8_Witness ==
    /\ rate_pct = 5
    /\ rate_str = <<"5", "%">>
    /\ volume_db = -10
    /\ volume_str = <<"-", "1", "0", "d", "B">>

\* the finished run had the inputs and the answers of the first run
SameAsFirst ==
    /\ pc = "idle"
    /\ first # <<>>
    /\ first[1].text = text_input
    /\ first[1].voice = voice
    /\ first[1].rate = rate_str
    /\ first[1].volume = volume_str
    /\ first[1].resp = resp

\* C9: no script run ends the application, every run ends with the page waiting
\* for the next press, and a run with the inputs and the answers of the first run
\* shows what the first run showed, whatever failed in between.
C9_FailureLeavesNoTrace ==
    /\ pc # "crashed"
    /\ first # <<>> => first[1].pc = "idle"
    /\ SameAsFirst => ui = first[1].outcome

C9_Witness ==
    /\ SameAsFirst
    /\ requests = 2
    /\ first[1].outcome.kind = "exception"
    /\ ui.kind = "exception"

\* C10: when a script run has finished, no temp file is left.
C10_NoTempFileLeft ==
    pc = "idle" => DOMAIN files = {}

====
